---- MODULE Spec2Model ----
(***************************************************************************)
(* mpags-cipher: the cipher engine (Caesar, Playfair, Vigenere) and the    *)
(* multi-threaded dispatcher of main().                                    *)
(*                                                                         *)
(* A character is a one-character string; a std::string is a sequence of   *)
(* characters.  The classes CaesarCipher, PlayfairCipher, VigenereCipher   *)
(* and the function cipherFactory are declared in headers that main()      *)
(* includes but whose bodies are not among the sources; they are modelled   *)
(* from the design document and the unit tests.                            *)
(***************************************************************************)
EXTENDS Integers, Sequences, FiniteSets, TLC

----------------------------------------------------------------------------
(* Characters *)

Upper == << "A","B","C","D","E","F","G","H","I","J","K","L","M",
            "N","O","P","Q","R","S","T","U","V","W","X","Y","Z" >>

Lower == << "a","b","c","d","e","f","g","h","i","j","k","l","m",
            "n","o","p","q","r","s","t","u","v","w","x","y","z" >>

Digits == << "0","1","2","3","4","5","6","7","8","9" >>

alphabetSize == Len(Upper)

Range(s) == { s[i] : i \in 1..Len(s) }

IndexOf(s, c) == CHOOSE i \in 1..Len(s) : s[i] = c

isupper(c) == c \in Range(Upper)

islower(c) == c \in Range(Lower)

isalpha(c) == isupper(c) \/ islower(c)

isdigit(c) == c \in Range(Digits)

toupper(c) == IF islower(c) THEN Upper[IndexOf(Lower, c)] ELSE c

\* position of an upper-case letter in the alphabet, 0..25
AlphabetPos(c) == IndexOf(Upper, c) - 1

\* value of a decimal digit character
DigitVal(c) == IndexOf(Digits, c) - 1

ToUpperStr(s) == [ i \in 1..Len(s) |-> toupper(s[i]) ]

\* std::string::substr(pos, n) for pos <= size(): the characters [pos, pos+n),
\* cut at the end of the string.  (pos > size() throws std::out_of_range.)
substr(s, pos, n) ==
  SubSeq(s, pos + 1, IF pos + n > Len(s) THEN Len(s) ELSE pos + n)

substrThrows(s, pos) == pos > Len(s)

RECURSIVE Concat(_)
\* the strings of a sequence of strings, joined in order
Concat(ss) == IF ss = << >> THEN << >> ELSE Head(ss) \o Concat(Tail(ss))

Min(a, b) == IF a < b THEN a ELSE b

----------------------------------------------------------------------------
(* Cipher kinds and modes (CipherType.hpp, CipherMode.hpp) *)

CipherType == { "Caesar", "Playfair", "Vigenere" }

CipherMode == { "Encrypt", "Decrypt" }

NoCipher == [ type |-> "none" ]

----------------------------------------------------------------------------
(* Caesar cipher *)

RECURSIVE stoul(_)
\* the value of a string of decimal digits (most significant first)
stoul(s) ==
  IF s = << >> THEN 0
  ELSE 10 * stoul(SubSeq(s, 1, Len(s) - 1)) + DigitVal(s[Len(s)])

\* a Caesar key is a non-empty string of decimal digits
CaesarKeyValid(key) ==
  /\ key # << >>
  /\ \A i \in 1..Len(key) : isdigit(key[i])

CaesarKey(key) == stoul(key) % alphabetSize

\* one letter moved by shift s; anything but an upper-case letter is left alone
ShiftChar(c, s, mode) ==
  IF isupper(c)
  THEN IF mode = "Encrypt"
       THEN Upper[((AlphabetPos(c) + s) % alphabetSize) + 1]
       ELSE Upper[((AlphabetPos(c) + alphabetSize - s) % alphabetSize) + 1]
  ELSE c

CaesarApplyCipher(key, text, mode) ==
  [ i \in 1..Len(text) |-> ShiftChar(text[i], key, mode) ]

----------------------------------------------------------------------------
(* Vigenere cipher *)

\* a keyword is a non-empty string of letters
KeywordValid(key) ==
  /\ key # << >>
  /\ \A i \in 1..Len(key) : isalpha(key[i])

VigenereKey(key) == ToUpperStr(key)

\* the letter at stream position i (from 0) is moved by key[i mod keyLen] - 'A'
VigenereApplyCipher(key, text, mode) ==
  [ i \in 1..Len(text) |->
      ShiftChar(text[i], AlphabetPos(key[((i - 1) % Len(key)) + 1]), mode) ]

----------------------------------------------------------------------------
(* Playfair cipher *)

gridSize == 5

MergeJ(s) == [ i \in 1..Len(s) |-> IF s[i] = "J" THEN "I" ELSE s[i] ]

RECURSIVE RemoveDuplicates(_, _)
\* s without the characters of seen and without later repeats of a character
RemoveDuplicates(s, seen) ==
  IF s = << >> THEN << >>
  ELSE IF Head(s) \in seen
       THEN RemoveDuplicates(Tail(s), seen)
       ELSE << Head(s) >> \o RemoveDuplicates(Tail(s), seen \cup { Head(s) })

\* the 5x5 square, row by row: the keyword's letters, then the rest of the
\* alphabet, J merged into I, every letter once
PlayfairKey(key) == RemoveDuplicates(MergeJ(ToUpperStr(key) \o Upper), { })

\* the filler after a doubled X is the end-of-text filler
Filler_Z(c) == IF c = "X" THEN "Z" ELSE "X"

\* the letter put between the two letters of a doubled pair
Filler(c) == IF c = "X" THEN "Q" ELSE "X"

RECURSIVE BreakDoubles(_)
\* pair up the text from the left; a pair of two equal letters gets a filler
\* between them and pairing resumes at the second letter
BreakDoubles(s) ==
  IF Len(s) <= 1 THEN s
  ELSE IF s[1] # s[2]
       THEN << s[1], s[2] >> \o BreakDoubles(SubSeq(s, 3, Len(s)))
       ELSE << s[1], Filler(s[1]) >> \o BreakDoubles(Tail(s))

\* a text of odd length gets a trailing Z
PadOdd(s) == IF Len(s) % 2 = 1 THEN Append(s, "Z") ELSE s

PlayfairPrepare(text) == PadOdd(BreakDoubles(MergeJ(text)))

\* decryption moves along the row or column in the direction of encryption
Digraph_SameDirection(grid, a, b, mode) ==
  LET pa == IndexOf(grid, a) - 1
      pb == IndexOf(grid, b) - 1
      ra == pa \div gridSize
      ca == pa % gridSize
      rb == pb \div gridSize
      cb == pb % gridSize
      at(r, c) == grid[r * gridSize + c + 1]
  IN  IF ra = rb
      THEN << at(ra, (ca + 1) % gridSize), at(rb, (cb + 1) % gridSize) >>
      ELSE IF ca = cb
           THEN << at((ra + 1) % gridSize, ca), at((rb + 1) % gridSize, cb) >>
           ELSE << at(ra, cb), at(rb, ca) >>

\* the two letters that replace the digraph (a, b) in square grid
Digraph(grid, a, b, mode) ==
  LET shift == IF mode = "Encrypt" THEN 1 ELSE gridSize - 1
      pa == IndexOf(grid, a) - 1
      pb == IndexOf(grid, b) - 1
      ra == pa \div gridSize
      ca == pa % gridSize
      rb == pb \div gridSize
      cb == pb % gridSize
      at(r, c) == grid[r * gridSize + c + 1]
  IN  IF ra = rb
      THEN << at(ra, (ca + shift) % gridSize), at(rb, (cb + shift) % gridSize) >>
      ELSE IF ca = cb
           THEN << at((ra + shift) % gridSize, ca), at((rb + shift) % gridSize, cb) >>
           ELSE << at(ra, cb), at(rb, ca) >>

PlayfairApplyCipher(grid, text, mode) ==
  LET t == PlayfairPrepare(text)
  IN  [ i \in 1..Len(t) |->
          IF i % 2 = 1 THEN Digraph(grid, t[i], t[i + 1], mode)[1]
                       ELSE Digraph(grid, t[i - 1], t[i], mode)[2] ]

----------------------------------------------------------------------------
(* Cipher factory and virtual dispatch (CipherFactory.hpp, Cipher.hpp) *)

\* TRUE when cipherFactory(type, key) throws InvalidKey
ThrowsInvalidKey(type, key) ==
  IF type = "Caesar" THEN ~CaesarKeyValid(key) ELSE ~KeywordValid(key)

\* the cipher object cipherFactory(type, key) returns for a valid key
cipherFactory(type, key) ==
  [ type |-> type,
    key  |-> CASE type = "Caesar"   -> CaesarKey(key)
               [] type = "Playfair" -> PlayfairKey(key)
               [] type = "Vigenere" -> VigenereKey(key) ]

\* cipher->applyCipher(text, mode)
applyCipher(cipher, text, mode) ==
  CASE cipher.type = "Caesar"   -> CaesarApplyCipher(cipher.key, text, mode)
    [] cipher.type = "Playfair" -> PlayfairApplyCipher(cipher.key, text, mode)
    [] cipher.type = "Vigenere" -> VigenereApplyCipher(cipher.key, text, mode)

----------------------------------------------------------------------------
(* Inputs *)

\* number of worker threads main() uses
threadNum == 12

\* longest input text drawn from the sample
MaxLen == 56

\* length of the non-empty text of the free-running specification
SchedLen == 13

\* "THISISQUITEALONGMESSAGESOTHEKEYWILLNEEDTOREPEATAFEWTIMES"
Sample ==
  << "T","H","I","S","I","S","Q","U","I","T","E","A","L","O","N","G",
     "M","E","S","S","A","G","E","S","O","T","H","E","K","E","Y","W",
     "I","L","L","N","E","E","D","T","O","R","E","P","E","A","T","A",
     "F","E","W","T","I","M","E","S" >>

\* the first n characters of the sample, repeated as often as needed
Text(n) == [ i \in 1..n |-> Sample[((i - 1) % Len(Sample)) + 1] ]

\* "Hello, World!"
HelloWorld == << "H","e","l","l","o",","," ","W","o","r","l","d","!" >>

\* "ROVVYGYBVN"
Rovvygybvn == << "R","O","V","V","Y","G","Y","B","V","N" >>

\* "BOBISSOMESORTOFJUNIORCOMPLEXXENOPHONEONEZEROTHING"
BobText ==
  << "B","O","B","I","S","S","O","M","E","S","O","R","T","O","F","J",
     "U","N","I","O","R","C","O","M","P","L","E","X","X","E","N","O",
     "P","H","O","N","E","O","N","E","Z","E","R","O","T","H","I","N",
     "G" >>

\* the Playfair cipher text the unit test expects for BobText, key "hello":
\* "FHIQXLTLKLTLSUFNPQPKETFENIOLVSWLTFIAFTLAKOWATEQOKPPA"
BobCipherText ==
  << "F","H","I","Q","X","L","T","L","K","L","T","L","S","U","F","N",
     "P","Q","P","K","E","T","F","E","N","I","O","L","V","S","W","L",
     "T","F","I","A","F","T","L","A","K","O","W","A","T","E","Q","O",
     "K","P","P","A" >>

\* the text the unit test expects the cipher text to decrypt to:
\* "BOBISXSOMESORTOFIUNIORCOMPLEXQXENOPHONEONEZEROTHINGZ"
BobDecryptText ==
  << "B","O","B","I","S","X","S","O","M","E","S","O","R","T","O","F",
     "I","U","N","I","O","R","C","O","M","P","L","E","X","Q","X","E",
     "N","O","P","H","O","N","E","O","N","E","Z","E","R","O","T","H",
     "I","N","G","Z" >>

\* a text whose last letter is a Z left without a partner
Fizz == << "F","I","Z","Z" >>

Key10 == << "1","0" >>

KeyMinus10 == << "-","1","0" >>

Key1340 == << "1","3","4","0" >>

Key26 == << "2","6" >>

KeyAgfag == << "a","g","f","a","g" >>

KeyPunct == << ";","[","]","'","." >>

KeyHello == << "h","e","l","l","o" >>

KeyAb == << "a","B" >>

KeyZ == << "Z" >>

\* a keyword with a character that is not a letter
KeyMixed == << "h","-","i" >>

\* the raw key strings of the unit tests, the empty key and a few more
RawKeys ==
  { << >>, Key10, KeyMinus10, Key1340, Key26, KeyAgfag, KeyPunct, KeyHello,
    KeyAb, KeyZ, KeyMixed }

\* what can arrive on standard input
Inputs ==
  { Text(n) : n \in 0..MaxLen }
     \cup { HelloWorld, Rovvygybvn, BobText, BobDecryptText, Fizz }

SchedKeys == { Key10, KeyMinus10, KeyHello }

SchedInputs == { Text(0), Text(SchedLen) }

----------------------------------------------------------------------------
(* The program state *)

VARIABLES
  pc,                  \* where main() (or the unit test) is
  settings,            \* ProgramSettings after processCommandLine
  stdin,               \* the characters waiting on standard input
  cipher,              \* the std::unique_ptr<Cipher>; NoCipher when null
  inputText,
  outputText,
  run,                 \* 1 in the first run of the program, 2 in the second
  plainText,           \* second run: the text the first run was given
  futures,             \* the vector of futures, in submission order
  chunkLength,
  endTextLen,
  inputTextChunkStart,
  threadCount,
  allFuturesReady,
  collected,           \* futures whose get() has returned
  syncCalls,           \* applyCipher calls made by main() itself
  cout,                \* lines written to standard output
  cerr                 \* lines written to standard error

vars == << pc, settings, stdin, cipher, inputText, outputText, run,
           plainText, futures, chunkLength, endTextLen, inputTextChunkStart, threadCount,
           allFuturesReady, collected, syncCalls, cout, cerr >>

loopVars == << chunkLength, endTextLen, inputTextChunkStart, threadCount >>

runVars == << run, plainText >>

\* the state of main() before cipherFactory is called, for the given raw
\* keys and input streams.  The runs modelled are those without -h, --version,
\* -i and -o: the text is read from standard input and written to standard
\* output.
InitWith(keys, inputs) ==
  /\ pc = "factory"
  /\ settings \in [ cipherType : CipherType, cipherKey : keys,
                    cipherMode : CipherMode ]
  /\ stdin \in inputs
  /\ cipher = NoCipher
  /\ inputText = << >>
  /\ outputText = << >>
  /\ run = 1
  /\ plainText = << >>
  /\ futures = << >>
  /\ chunkLength = 0
  /\ endTextLen = 0
  /\ inputTextChunkStart = 0
  /\ threadCount = 0
  /\ allFuturesReady = TRUE
  /\ collected = 0
  /\ syncCalls = 0
  /\ cout = << >>
  /\ cerr = << >>

Init == InitWith(SchedKeys, SchedInputs)

InitWide == InitWith(RawKeys, Inputs)

\* the encrypting runs on a text of SchedLen characters
InitLive ==
  /\ InitWith(SchedKeys, { Text(SchedLen) })
  /\ settings.cipherMode = "Encrypt"

----------------------------------------------------------------------------
(* main(): cipher construction and input *)

\* the InvalidKey handler reports the error but does not return
ConstructCipher_NoReturn ==
  /\ pc = "factory"
  /\ IF ThrowsInvalidKey(settings.cipherType, settings.cipherKey)
     THEN /\ cerr' = Append(cerr, "[error] Invalid key")
          /\ pc' = "read"
          /\ UNCHANGED cipher
     ELSE /\ cipher' = cipherFactory(settings.cipherType, settings.cipherKey)
          /\ pc' = "read"
          /\ UNCHANGED cerr
  /\ UNCHANGED << settings, stdin, inputText, outputText, runVars, futures,
                  loopVars, allFuturesReady, collected, syncCalls, cout >>

\* the input stream is consumed before the key is looked at
ConstructCipher_ReadsInputFirst ==
  /\ pc = "factory"
  /\ stdin' = << >>
  /\ IF ThrowsInvalidKey(settings.cipherType, settings.cipherKey)
     THEN /\ cerr' = Append(cerr, "[error] Invalid key")
          /\ pc' = "exit1"
          /\ UNCHANGED cipher
     ELSE /\ cipher' = cipherFactory(settings.cipherType, settings.cipherKey)
          /\ pc' = "read"
          /\ UNCHANGED cerr
  /\ UNCHANGED << settings, inputText, outputText, runVars, futures,
                  loopVars, allFuturesReady, collected, syncCalls, cout >>

\* a key that was not supplied is taken as a null key: the cipher is
\* constructed with no key at all
ConstructCipher_NullKeyAccepted ==
  /\ pc = "factory"
  /\ IF settings.cipherKey # << >>
        /\ ThrowsInvalidKey(settings.cipherType, settings.cipherKey)
     THEN /\ cerr' = Append(cerr, "[error] Invalid key")
          /\ pc' = "exit1"
          /\ UNCHANGED cipher
     ELSE /\ cipher' = [ type |-> settings.cipherType,
                         key  |-> IF settings.cipherType = "Caesar"
                                  THEN 0 ELSE ToUpperStr(settings.cipherKey) ]
          /\ pc' = "read"
          /\ UNCHANGED cerr
  /\ UNCHANGED << settings, stdin, inputText, outputText, runVars, futures,
                  loopVars, allFuturesReady, collected, syncCalls, cout >>

\* cipher = cipherFactory(...); InvalidKey and a null cipher end the run
ConstructCipher ==
  /\ pc = "factory"
  /\ IF ThrowsInvalidKey(settings.cipherType, settings.cipherKey)
     THEN /\ cerr' = Append(cerr, "[error] Invalid key")
          /\ pc' = "exit1"
          /\ UNCHANGED cipher
     ELSE /\ cipher' = cipherFactory(settings.cipherType, settings.cipherKey)
          /\ IF cipher' = NoCipher
             THEN /\ cerr' = Append(cerr, "[error] problem constructing requested cipher")
                  /\ pc' = "exit1"
             ELSE /\ pc' = "read"
                  /\ UNCHANGED cerr
  /\ UNCHANGED << settings, stdin, inputText, outputText, runVars, futures,
                  loopVars, allFuturesReady, collected, syncCalls, cout >>

\* transformChar: a letter becomes its upper case, anything else is dropped
transformChar(c) == IF isalpha(c) THEN << toupper(c) >> ELSE << >>

RECURSIVE TransformAll(_)
\* inputText after the read loop has consumed the stream s
TransformAll(s) ==
  IF s = << >> THEN << >>
  ELSE transformChar(Head(s)) \o TransformAll(Tail(s))

\* the read loop over std::cin, to end of file
ReadInput ==
  /\ pc = "read"
  /\ inputText' = TransformAll(stdin)
  /\ stdin' = << >>
  /\ pc' = "dispatch"
  /\ UNCHANGED << settings, cipher, outputText, runVars, futures, loopVars,
                  allFuturesReady, collected, syncCalls, cout, cerr >>

----------------------------------------------------------------------------
(* main(): splitting the text and launching the workers *)

\* what std::async hands back: the task's own copy of its chunk, where the
\* chunk starts in inputText, and the shared state of the future
Launch(chunk, offset) ==
  [ chunk |-> chunk, offset |-> offset, state |-> "running", result |-> << >> ]

\* the chunk length is rounded up
CaesarChunkLength_RoundUp(len) == (len + threadNum - 1) \div threadNum

\* Caesar: const size_t chunkLength{inputText.length()/threadNum}
CaesarChunkLength(len) == len \div threadNum

\* the characters left over by the integer division are forgotten
CaesarEndTextLen_Zero(len) == 0

\* Caesar: size_t endTextLen{inputText.length() - threadNum*chunkLength}
CaesarEndTextLen(len) == len - threadNum * CaesarChunkLength(len)

\* the longer chunk takes its extra character but the chunk start is not moved
\* past it
CaesarChunk_ExtraNotConsumed(text, start, len, extra) ==
  LET first == substr(text, start, len)
      next  == start + len
  IN  IF extra > 0
      THEN [ chunk |-> first \o substr(text, next, 1), start |-> next,
             endTextLen |-> extra - 1 ]
      ELSE [ chunk |-> first, start |-> next, endTextLen |-> extra ]

\* the chunk start is moved past the extra character but the character is
\* not added to the chunk
CaesarChunk_DropExtra(text, start, len, extra) ==
  LET first == substr(text, start, len)
      next  == start + len
  IN  IF extra > 0
      THEN [ chunk |-> first, start |-> next + 1, endTextLen |-> extra - 1 ]
      ELSE [ chunk |-> first, start |-> next, endTextLen |-> extra ]

\* Caesar: one pass of the loop body, from chunk start `start` with `extra`
\* longer chunks still to hand out
CaesarChunk(text, start, len, extra) ==
  LET first == substr(text, start, len)
      next  == start + len
  IN  IF extra > 0
      THEN [ chunk |-> first \o substr(text, next, 1), start |-> next + 1,
             endTextLen |-> extra - 1 ]
      ELSE [ chunk |-> first, start |-> next, endTextLen |-> extra ]

\* the chunk length is not made a multiple of the key length
VigenereChunkLength_NotAligned(len, keyLen) == (len \div threadNum) + 1

\* the "+ 1" of the chunk length is left out
VigenereChunkLength_NoPlusOne(len, keyLen) ==
  ((len \div keyLen) \div threadNum) * keyLen

\* Vigenere: chunkLength = (((length/keyLength)/threadNum) + 1)*keyLength
VigenereChunkLength(len, keyLen) ==
  (((len \div keyLen) \div threadNum) + 1) * keyLen

\* the chunks are counted from one instead of zero
VigenereChunkStart_FromOne(n, len) == (n + 1) * len

\* consecutive chunks share one character
VigenereChunkStart_Overlap(n, len) == IF n = 0 THEN 0 ELSE n * len - 1

\* Vigenere: where chunk number n starts
VigenereChunkStart(n, len) == n * len

\* a line of output holding a number below 100
NumberLine(n) ==
  IF n < 10 THEN << Digits[n + 1] >>
  ELSE << Digits[(n \div 10) + 1], Digits[(n % 10) + 1] >>

\* the Playfair branch is never taken
IsPlayfair_Never(type) == FALSE

\* if (cipherType == Playfair)
IsPlayfair(type) == type = "Playfair"

\* the branch on the cipher type: Playfair is applied here and now, to the
\* whole text; Caesar and Vigenere set up their split loops
Dispatch ==
  /\ pc = "dispatch"
  /\ IF IsPlayfair(settings.cipherType)
     THEN /\ outputText' = applyCipher(cipher, inputText, settings.cipherMode)
          /\ syncCalls' = syncCalls + 1
          /\ pc' = "output"
          /\ UNCHANGED loopVars
     ELSE /\ UNCHANGED << outputText, syncCalls >>
          /\ threadCount' = 0
          /\ IF settings.cipherType = "Caesar"
             THEN /\ chunkLength' = CaesarChunkLength(Len(inputText))
                  /\ endTextLen' = CaesarEndTextLen(Len(inputText))
                  /\ inputTextChunkStart' = 0
                  /\ pc' = "caesarLoop"
             ELSE IF settings.cipherType = "Vigenere"
                  THEN /\ chunkLength' = VigenereChunkLength(Len(inputText),
                                                             Len(settings.cipherKey))
                       /\ pc' = "vigenereLoop"
                       /\ UNCHANGED << endTextLen, inputTextChunkStart >>
                  ELSE /\ pc' = "wait"
                       /\ UNCHANGED << chunkLength, endTextLen, inputTextChunkStart >>
  /\ UNCHANGED << settings, stdin, cipher, inputText, runVars, futures,
                  allFuturesReady, collected, cout, cerr >>

\* for (threadCount < threadNum): take the next chunk, launch a worker on it
CaesarLoop ==
  /\ pc = "caesarLoop"
  /\ threadCount < threadNum
  /\ IF substrThrows(inputText, inputTextChunkStart)
        \/ (endTextLen > 0
            /\ substrThrows(inputText, inputTextChunkStart + chunkLength))
     THEN \* std::out_of_range is not caught: the program is terminated
          /\ pc' = "terminated"
          /\ UNCHANGED << futures, loopVars >>
     ELSE LET c == CaesarChunk(inputText, inputTextChunkStart, chunkLength,
                               endTextLen)
          IN  /\ futures' = Append(futures, Launch(c.chunk, inputTextChunkStart))
              /\ inputTextChunkStart' = c.start
              /\ endTextLen' = c.endTextLen
              /\ threadCount' = threadCount + 1
              /\ pc' = IF threadCount + 1 < threadNum THEN "caesarLoop" ELSE "wait"
              /\ UNCHANGED chunkLength
  /\ UNCHANGED << settings, stdin, cipher, inputText, outputText, runVars,
                  allFuturesReady, collected, syncCalls, cout, cerr >>

\* for (threadCount < threadNum): print the counter, take the next chunk (the
\* loop ends when substr throws), print the chunk, launch a worker on it
VigenereLoop ==
  /\ pc = "vigenereLoop"
  /\ threadCount < threadNum
  /\ LET start == VigenereChunkStart(threadCount, chunkLength)
     IN  IF substrThrows(inputText, start)
         THEN /\ cout' = Append(cout, NumberLine(threadCount))
              /\ pc' = "wait"
              /\ UNCHANGED << futures, threadCount >>
         ELSE LET chunk == substr(inputText, start, chunkLength)
              IN  /\ cout' = cout \o << NumberLine(threadCount), chunk >>
                  /\ futures' = Append(futures, Launch(chunk, start))
                  /\ threadCount' = threadCount + 1
                  /\ pc' = IF threadCount + 1 < threadNum THEN "vigenereLoop"
                                                          ELSE "wait"
  /\ UNCHANGED << settings, stdin, cipher, inputText, outputText, runVars,
                  chunkLength, endTextLen, inputTextChunkStart,
                  allFuturesReady, collected, syncCalls, cerr >>

----------------------------------------------------------------------------
(* The workers *)

\* the mode of the settings is not passed on
doCipher_AlwaysEncrypt(c, mode, input) == applyCipher(c, input, "Encrypt")

\* doCipher: cipher->applyCipher(input, settings.cipherMode) on the task's copy
doCipher(c, mode, input) == applyCipher(c, input, mode)

\* the task reads the chunk through a reference to the loop's variable, which
\* holds the chunk launched last
WorkerDone_SharedChunk(i) ==
  /\ i \in 1..Len(futures)
  /\ futures[i].state = "running"
  /\ futures' = [ futures EXCEPT
                    ![i].state = "ready",
                    ![i].result = doCipher(cipher, settings.cipherMode,
                                           futures[Len(futures)].chunk) ]
  /\ UNCHANGED << pc, settings, stdin, cipher, inputText, outputText,
                  runVars, loopVars, allFuturesReady, collected, syncCalls,
                  cout, cerr >>

\* the task of future number i returns: its result is stored in the shared
\* state and the future becomes ready
WorkerDone(i) ==
  /\ i \in 1..Len(futures)
  /\ futures[i].state = "running"
  /\ futures' = [ futures EXCEPT
                    ![i].state = "ready",
                    ![i].result = doCipher(cipher, settings.cipherMode,
                                           futures[i].chunk) ]
  /\ UNCHANGED << pc, settings, stdin, cipher, inputText, outputText,
                  runVars, loopVars, allFuturesReady, collected, syncCalls,
                  cout, cerr >>

\* applyCipher throws inside the task of future number i: the exception is
\* stored in the future's shared state
WorkerThrows(i) ==
  /\ i \in 1..Len(futures)
  /\ futures[i].state = "running"
  /\ futures' = [ futures EXCEPT ![i].state = "failed" ]
  /\ UNCHANGED << pc, settings, stdin, cipher, inputText, outputText,
                  runVars, loopVars, allFuturesReady, collected, syncCalls,
                  cout, cerr >>

\* the task of future number i enters a computation that never returns: the
\* future never becomes ready
WorkerHangs(i) ==
  /\ i \in 1..Len(futures)
  /\ futures[i].state = "running"
  /\ futures' = [ futures EXCEPT ![i].state = "stuck" ]
  /\ UNCHANGED << pc, settings, stdin, cipher, inputText, outputText,
                  runVars, loopVars, allFuturesReady, collected, syncCalls,
                  cout, cerr >>

----------------------------------------------------------------------------
(* main(): waiting, reassembly and output *)

\* the loop never finds the futures ready and polls them again
WaitLoop_Spin ==
  /\ pc = "wait"
  /\ allFuturesReady' = allFuturesReady
  /\ UNCHANGED << pc, settings, stdin, cipher, inputText, outputText, runVars,
                  futures, loopVars, collected, syncCalls, cout, cerr >>

\* std::future_status status{timeout}; bool allFuturesReady{true};
\* while (!allFuturesReady) { one wait_for pass over the futures }
WaitLoop ==
  /\ pc = "wait"
  /\ IF ~allFuturesReady
     THEN /\ allFuturesReady' =
               \A i \in 1..Len(futures) : futures[i].state # "running"
          /\ UNCHANGED pc
     ELSE /\ pc' = IF futures = << >> THEN "output" ELSE "collect"
          /\ UNCHANGED allFuturesReady
  /\ UNCHANGED << settings, stdin, cipher, inputText, outputText, runVars,
                  futures, loopVars, collected, syncCalls, cout, cerr >>

\* the result is put in front of the text assembled so far
Reassemble_Prepend(out, result) == result \o out

\* outputText += result
Reassemble(out, result) == out \o result

\* the future the reassembly loop is at
NextFuture(n) == n + 1

\* for (auto &future : futures) outputText += future.get();
\* get() blocks until the future is ready
Collect ==
  /\ pc = "collect"
  /\ collected < Len(futures)
  /\ LET i == NextFuture(collected)
     IN  /\ futures[i].state = "ready"
         /\ outputText' = Reassemble(outputText, futures[i].result)
         /\ futures' = [ futures EXCEPT ![i].state = "retrieved" ]
  /\ collected' = collected + 1
  /\ pc' = IF collected + 1 < Len(futures) THEN "collect" ELSE "output"
  /\ UNCHANGED << settings, stdin, cipher, inputText, runVars, loopVars,
                  allFuturesReady, syncCalls, cout, cerr >>

\* the exception of a failed task is caught and its chunk is skipped
CollectRethrow_Swallow ==
  /\ pc = "collect"
  /\ collected < Len(futures)
  /\ LET i == NextFuture(collected)
     IN  /\ futures[i].state = "failed"
         /\ futures' = [ futures EXCEPT ![i].state = "rethrown" ]
  /\ collected' = collected + 1
  /\ pc' = IF collected + 1 < Len(futures) THEN "collect" ELSE "output"
  /\ UNCHANGED << settings, stdin, cipher, inputText, outputText, runVars,
                  loopVars, allFuturesReady, syncCalls, cout, cerr >>

\* future.get() on a future whose task threw rethrows the exception; nothing
\* in main() catches it, so the program is terminated
CollectRethrow ==
  /\ pc = "collect"
  /\ collected < Len(futures)
  /\ LET i == NextFuture(collected)
     IN  /\ futures[i].state = "failed"
         /\ futures' = [ futures EXCEPT ![i].state = "rethrown" ]
  /\ pc' = "terminated"
  /\ UNCHANGED << settings, stdin, cipher, inputText, outputText, runVars,
                  loopVars, allFuturesReady, collected, syncCalls, cout,
                  cerr >>

\* std::cout << outputText << std::endl; return 0;
WriteOutput ==
  /\ pc = "output"
  /\ cout' = Append(cout, outputText)
  /\ pc' = "done"
  /\ UNCHANGED << settings, stdin, cipher, inputText, outputText, runVars,
                  futures, loopVars, allFuturesReady, collected, syncCalls,
                  cerr >>

\* The user runs the program a second time, with the same cipher and key, to
\* decrypt what the first run encrypted (as the unit test decrypts the text it
\* has just encrypted).
RunAgain ==
  /\ pc = "done"
  /\ run = 1
  /\ settings.cipherMode = "Encrypt"
  /\ run' = 2
  /\ plainText' = inputText
  /\ settings' = [ settings EXCEPT !.cipherMode = "Decrypt" ]
  /\ stdin' = cout[Len(cout)]
  /\ pc' = "factory"
  /\ cipher' = NoCipher
  /\ inputText' = << >>
  /\ outputText' = << >>
  /\ futures' = << >>
  /\ chunkLength' = 0
  /\ endTextLen' = 0
  /\ inputTextChunkStart' = 0
  /\ threadCount' = 0
  /\ allFuturesReady' = TRUE
  /\ collected' = 0
  /\ syncCalls' = 0
  /\ cout' = << >>
  /\ cerr' = << >>

----------------------------------------------------------------------------
(* Specifications of main() *)

MainStep ==
  \/ ConstructCipher
  \/ ReadInput
  \/ Dispatch
  \/ CaesarLoop
  \/ VigenereLoop
  \/ WaitLoop
  \/ Collect
  \/ WriteOutput
  \/ RunAgain

\* the workers run freely: each may finish at any time after its launch
Next ==
  \/ MainStep
  \/ \E i \in 1..threadNum : WorkerDone(i)

Spec == Init /\ [][Next]_vars

\* the threads are scheduled: while main() or a launched task has a step to
\* take, one of them takes a step, so every task runs to its end
SpecLive ==
  /\ InitLive
  /\ [][Next]_vars
  /\ WF_vars(Next)

\* a worker finishes when main() is blocked in get() on its future
Awaited(i) == pc = "collect" /\ i = NextFuture(collected)

NextJoin ==
  \/ MainStep
  \/ \E i \in 1..threadNum : Awaited(i) /\ WorkerDone(i)

\* every input of the test set, under the schedule in which each worker
\* finishes at the moment its result is asked for
SpecJoin == InitWide /\ [][NextJoin]_vars

\* as NextJoin, but the task main() is blocked on may also throw or never
\* return
NextFault ==
  \/ MainStep
  \/ CollectRethrow
  \/ \E i \in 1..threadNum : Awaited(i) /\ WorkerDone(i)
  \/ \E i \in 1..threadNum : Awaited(i) /\ WorkerThrows(i)
  \/ \E i \in 1..threadNum : Awaited(i) /\ WorkerHangs(i)

\* the runs in which chunk computations may fail or hang
SpecFault == Init /\ [][NextFault]_vars

----------------------------------------------------------------------------
(* Properties *)

Chunked == settings.cipherType \in { "Caesar", "Vigenere" }

AfterSplit == pc \in { "wait", "collect", "output", "done" }

Assembled == pc \in { "output", "done" }

\* the results of the first n chunk computations, in submission order
ChunkResults(n) ==
  [ i \in 1..n |-> applyCipher(cipher, futures[i].chunk, settings.cipherMode) ]

\* C1: for Caesar and Vigenere, whatever the key, the mode and the text, the
\* text assembled from the chunks is what one applyCipher call on the whole
\* input text returns.
C1_ChunkedEqualsUnsplit ==
  (Chunked /\ Assembled) =>
     outputText = applyCipher(cipher, inputText, settings.cipherMode)

\* C1 witness: a finished Vigenere run that used all twelve workers, the last
\* chunk being non-empty and shorter than the others.
C1_Witness ==
  /\ pc = "done"
  /\ settings.cipherType = "Vigenere"
  /\ Len(futures) = threadNum
  /\ futures[threadNum].chunk # << >>
  /\ Len(futures[threadNum].chunk) < chunkLength
  /\ outputText # inputText

\* C2: at every moment of the reassembly, under every order in which the
\* workers finish, the output text is the concatenation of the results of the
\* chunks collected so far, in submission order; when the reassembly is over
\* every chunk has been collected.
C2_SubmissionOrder ==
  Chunked =>
     /\ outputText = Concat(ChunkResults(collected))
     /\ Assembled => collected = Len(futures)

\* C2 witness: the first result has been appended while the third worker has
\* finished before the second.
C2_Witness ==
  /\ pc = "collect"
  /\ collected = 1
  /\ outputText # << >>
  /\ futures[2].state = "running"
  /\ futures[3].state = "ready"
  /\ futures[3].result # << >>

\* C3: no chunk result is appended to the output text while a submitted
\* chunk computation is still running.
C3_NoAppendWhileRunning ==
  collected > 0 =>
     \A i \in 1..Len(futures) : futures[i].state # "running"

\* C4: with the Playfair cipher no chunk is ever taken and no worker is ever
\* launched; main() calls applyCipher once, on the whole input text, and the
\* result of that call is the output text.
C4_PlayfairWholeText ==
  settings.cipherType = "Playfair" =>
     /\ futures = << >>
     /\ pc \notin { "caesarLoop", "vigenereLoop", "wait", "collect", "terminated" }
     /\ syncCalls = (IF Assembled THEN 1 ELSE 0)
     /\ Assembled =>
          outputText = PlayfairApplyCipher(cipher.key, inputText, settings.cipherMode)
     /\ pc = "done" => cout = << outputText >>

\* C4 witness: a finished Playfair run on a text longer than the worker count.
C4_Witness ==
  /\ pc = "done"
  /\ settings.cipherType = "Playfair"
  /\ Len(inputText) > threadNum
  /\ Len(outputText) >= Len(inputText)
  /\ syncCalls = 1

\* C5: every chunk submitted for the Vigenere cipher starts at a multiple of
\* the key length and is the text from there on, so that the cipher applied to
\* the chunk alone yields the same letters as the cipher applied to the whole
\* text yields at the chunk's place.  (Stated of the split loop and of the
\* state it ends in; chunks and offsets do not change afterwards.)
C5_VigenereChunksAligned ==
  (settings.cipherType = "Vigenere" /\ pc \in { "vigenereLoop", "wait" }
     /\ futures # << >>) =>
     LET k == Len(cipher.key)
         \* the key letter the whole-text pass uses at stream position p (from 0)
         keyAt(p) == cipher.key[(p % k) + 1]
     IN  \A i \in 1..Len(futures) :
            LET f == futures[i]
            IN  /\ f.offset % k = 0
                /\ f.offset + Len(f.chunk) <= Len(inputText)
                /\ f.chunk = SubSeq(inputText, f.offset + 1, f.offset + Len(f.chunk))
                /\ applyCipher(cipher, f.chunk, settings.cipherMode)
                     = [ j \in 1..Len(f.chunk) |->
                           ShiftChar(inputText[f.offset + j],
                                     AlphabetPos(keyAt(f.offset + j - 1)),
                                     settings.cipherMode) ]

\* C5 witness: a Vigenere run with a key of two or more different letters and
\* a non-empty chunk that does not start at the beginning of the text.
C5_Witness ==
  /\ settings.cipherType = "Vigenere"
  /\ pc = "wait"
  /\ \E i \in 1..Len(futures) :
        futures[i].offset > 0 /\ futures[i].chunk # << >>
  /\ Len(cipher.key) >= 2
  /\ cipher.key[1] # cipher.key[2]

\* the length the claim gives chunk number i of a text of length len
EvenShare(i, len) ==
  (len \div threadNum) + (IF i <= len % threadNum THEN 1 ELSE 0)

\* C6: the Caesar chunks are contiguous pieces of the input text, chunk i
\* having floor(L/N)+1 characters when i <= L mod N and floor(L/N) otherwise;
\* twelve of them are submitted and together they are the whole text.
C6_CaesarEvenChunks ==
  settings.cipherType = "Caesar" =>
     /\ \A i \in 1..Len(futures) :
           LET f == futures[i]
           IN  /\ Len(f.chunk) = EvenShare(i, Len(inputText))
               /\ f.offset = (IF i = 1 THEN 0
                              ELSE futures[i - 1].offset + Len(futures[i - 1].chunk))
               /\ f.chunk = SubSeq(inputText, f.offset + 1, f.offset + Len(f.chunk))
     /\ AfterSplit =>
           /\ Len(futures) = threadNum
           /\ Concat([ i \in 1..Len(futures) |-> futures[i].chunk ]) = inputText

\* C6 witness: a Caesar split of a text whose length is above twelve and no
\* multiple of twelve, so that both chunk lengths occur.
C6_Witness ==
  /\ settings.cipherType = "Caesar"
  /\ AfterSplit
  /\ Len(inputText) > threadNum
  /\ Len(inputText) % threadNum # 0
  /\ Len(futures[1].chunk) = Len(futures[threadNum].chunk) + 1

\* C7 as claimed: for Caesar and Vigenere the number of chunk computations
\* submitted is the worker count.
C7_ChunkCountIsThreadNum ==
  (Chunked /\ AfterSplit) => Len(futures) = threadNum

\* C7 as amended: Caesar submits twelve chunk computations; Vigenere submits
\* one for every chunk start n*c (n = 0..11) that is not beyond the end of the
\* text, c being (floor(floor(L/k)/12) + 1) * k: min(12, floor(L/c) + 1) of
\* them, at least one and at most twelve.
C7_ChunkCount ==
  (Chunked /\ AfterSplit) =>
     IF settings.cipherType = "Caesar"
     THEN Len(futures) = threadNum
     ELSE LET k == Len(settings.cipherKey)
              c == (((Len(inputText) \div k) \div threadNum) + 1) * k
          IN  /\ Len(futures) = Min(threadNum, (Len(inputText) \div c) + 1)
              /\ Len(futures) >= 1
              /\ Len(futures) <= threadNum

\* C7 witness: a Vigenere split that submitted fewer chunks than workers.
C7_Witness ==
  /\ settings.cipherType = "Vigenere"
  /\ AfterSplit
  /\ Len(futures) < threadNum
  /\ Len(inputText) > 0

DigitChars == { "0", "1", "2", "3", "4", "5", "6", "7", "8", "9" }

\* the raw key is not what the claim accepts for the kind: for Caesar a
\* non-negative base-10 integer, for the keyword ciphers a non-empty string
\* of letters
KeyInvalidForKind(type, key) ==
  IF type = "Caesar"
  THEN key = << >> \/ \E i \in 1..Len(key) : key[i] \notin DigitChars
  ELSE key = << >> \/ \E i \in 1..Len(key) :
                         key[i] \notin (Range(Upper) \cup Range(Lower))

C9_CaesarLetterMap ==
  (settings.cipherType = "Caesar" /\ pc # "factory" /\ pc # "exit1") =>
     LET s == stoul(settings.cipherKey) % 26
         sign == IF settings.cipherMode = "Encrypt" THEN 1 ELSE -1
     IN  /\ \A i \in 1..Len(futures) :
              futures[i].state \in { "ready", "retrieved" } =>
                 /\ Len(futures[i].result) = Len(futures[i].chunk)
                 /\ \A j \in 1..Len(futures[i].chunk) :
                       /\ futures[i].result[j] \in Range(Upper)
                       /\ AlphabetPos(futures[i].result[j])
                            = (AlphabetPos(futures[i].chunk[j]) + sign * s) % 26
         /\ Assembled => Len(outputText) = Len(inputText)
         /\ (Assembled /\ settings.cipherKey = Key10
               /\ inputText = ToUpperStr(Rovvygybvn)
               /\ settings.cipherMode = "Decrypt")
              => outputText = << "H","E","L","L","O","W","O","R","L","D" >>
         /\ (Assembled /\ settings.cipherKey = Key10
               /\ inputText = << "H","E","L","L","O","W","O","R","L","D" >>
               /\ settings.cipherMode = "Encrypt")
              => outputText = Rovvygybvn

\* C9 witness: with the key 10 the first run has turned HELLOWORLD into
\* ROVVYGYBVN and the second run has turned that back into HELLOWORLD.
C9_Witness ==
  /\ pc = "done"
  /\ run = 2
  /\ settings.cipherType = "Caesar"
  /\ settings.cipherKey = Key10
  /\ plainText = << "H","E","L","L","O","W","O","R","L","D" >>
  /\ inputText = Rovvygybvn
  /\ outputText = plainText

\* C10: when a text is encrypted by one run of the dispatcher with the Caesar
\* cipher and the result is decrypted by a second run with the same key, the
\* output of the second run is the text the first run was given.
C10_CaesarRoundTrip ==
  (settings.cipherType = "Caesar" /\ run = 2 /\ Assembled) =>
     outputText = plainText

\* C10 witness: a finished Caesar round trip of a text longer than the worker
\* count, with a shift that changes the text.
C10_Witness ==
  /\ settings.cipherType = "Caesar"
  /\ run = 2
  /\ pc = "done"
  /\ Len(plainText) > threadNum
  /\ Len(plainText) % threadNum # 0
  /\ inputText # plainText
  /\ outputText = plainText

\* the ciphertext the unit test expects for Sample under the key "hello"
SampleVigenereHello ==
  << "A","L","T","D","W","Z","U","F","T","H","L","E","W","Z","B","N","Q","P",
     "D","G","H","K","P","D","C","A","L","P","V","S","F","A","T","W","Z","U",
     "I","P","O","H","V","V","P","A","S","H","X","L","Q","S","D","X","T","X",
     "S","Z" >>

\* C11: with the Vigenere cipher, whatever the keyword and the text, the text
\* the dispatcher assembles from its key-length-aligned chunks has at every
\* stream position i (from 0) the input letter shifted by keyword[i mod keyLen]
\* - 'A', forwards to encrypt and backwards to decrypt, exactly as one pass
\* over the whole text; and decrypting in a second run what a first run
\* encrypted gives back the text the first run was given.
C11_VigenereRoundTrip ==
  (settings.cipherType = "Vigenere" /\ Assembled) =>
     LET K == ToUpperStr(settings.cipherKey)
         k == Len(K)
         sign == IF settings.cipherMode = "Encrypt" THEN 1 ELSE -1
     IN  /\ Len(outputText) = Len(inputText)
         /\ \A i \in 0..(Len(inputText) - 1) :
               /\ outputText[i + 1] \in Range(Upper)
               /\ AlphabetPos(outputText[i + 1])
                    = (AlphabetPos(inputText[i + 1])
                         + sign * AlphabetPos(K[(i % k) + 1])) % alphabetSize
         /\ outputText = VigenereApplyCipher(K, inputText, settings.cipherMode)
         /\ run = 2 => outputText = plainText
         /\ (run = 1 /\ settings.cipherKey = KeyHello /\ inputText = Sample
               /\ settings.cipherMode = "Encrypt")
              => outputText = SampleVigenereHello

\* C11 witness: a finished Vigenere round trip under a keyword of several
\* different letters, split into several non-empty chunks, the last one
\* shorter than the others, whose first run changed the text.
C11_Witness ==
  /\ settings.cipherType = "Vigenere"
  /\ run = 2
  /\ pc = "done"
  /\ Len(cipher.key) >= 2
  /\ cipher.key[1] # cipher.key[2]
  /\ Len(futures) >= 3
  /\ futures[Len(futures)].chunk # << >>
  /\ Len(futures[Len(futures)].chunk) < chunkLength
  /\ inputText # plainText
  /\ outputText = plainText

RECURSIVE IsFillerAdjusted(_, _, _)
\* TRUE when D is the text T paired up from the left, a pair of two equal
\* letters having got a filler between them (X, or xf when the letter is X),
\* the pairing having resumed at the second letter, and a last letter left
\* alone having got a trailing Z
IsFillerAdjusted(D, T, xf) ==
  IF T = << >> THEN D = << >>
  ELSE IF Len(D) < 2 THEN FALSE
  ELSE /\ D[1] = T[1]
       /\ IF Len(T) = 1 THEN D = << T[1], "Z" >>
          ELSE IF T[2] # T[1]
               THEN /\ D[2] = T[2]
                    /\ IsFillerAdjusted(SubSeq(D, 3, Len(D)), SubSeq(T, 3, Len(T)), xf)
               ELSE /\ D[2] = (IF T[1] = "X" THEN xf ELSE "X")
                    /\ IsFillerAdjusted(SubSeq(D, 3, Len(D)), Tail(T), xf)

\* the pairs of D that consist of one letter twice
EqualPairs(D) == { j \in 1..(Len(D) \div 2) : D[2 * j - 1] = D[2 * j] }

C12_WitnessFinalZZ ==
  /\ settings.cipherType = "Playfair"
  /\ run = 2
  /\ pc = "done"
  /\ EqualPairs(PlayfairPrepare(plainText)) # { }

\* main() is blocked in get() on a future whose task will never return
BlockedOnStuck ==
  /\ pc = "collect"
  /\ collected < Len(futures)
  /\ futures[NextFuture(collected)].state = "stuck"

\* C13: when a chunk computation never completes, main() is not left waiting
\* on its future for ever: whenever main() is blocked on such a future it has
\* a step it can take (towards an abort).
C13_JoinDoesNotHang ==
  BlockedOnStuck => ENABLED (MainStep \/ CollectRethrow)

\* C16: when applyCipher throws inside a task, main() gets no further than
\* the get() of that task's future: the exception leaves main() there, the
\* program is terminated, and standard output never receives the output
\* text, neither whole nor the part assembled from the chunks before the
\* failed one; all it holds is what the splitting loop printed.
C16_FailureAborts ==
  LET Failed == { i \in 1..Len(futures) :
                     futures[i].state \in { "failed", "rethrown" } }
  IN  /\ Failed # { } =>
           /\ pc \in { "collect", "terminated" }
           /\ \A i \in Failed : collected = i - 1
           /\ outputText = Concat(ChunkResults(collected))
           /\ settings.cipherType = "Caesar" => cout = << >>
           /\ \A j \in 1..Len(cout) :
                 cout[j] = (IF j % 2 = 1 THEN NumberLine((j - 1) \div 2)
                                         ELSE futures[j \div 2].chunk)
      /\ pc = "terminated" /\ futures # << >> =>
           /\ Failed # { }
           /\ \A i \in Failed : futures[i].state = "rethrown"
      /\ (\E i \in Failed : futures[i].state = "rethrown") => pc = "terminated"

\* C16 witness: the third chunk computation has failed after the results of
\* the first two were appended; the program has been terminated at the third
\* get().
C16_Witness ==
  /\ pc = "terminated"
  /\ Len(futures) >= 3
  /\ futures[3].state = "rethrown"
  /\ collected = 2
  /\ outputText # << >>
  /\ outputText = Concat(ChunkResults(2))

\* C14: when every chunk computation that was submitted returns, main() gets
\* from the end of the splitting to the end of the run: the wait loop is left,
\* the reassembly loop moves from one future to the next, taking the result
\* of each future once and of none twice, and the output text written at the
\* end holds the result of every chunk.
C14_DispatcherTerminates ==
  /\ (pc \in { "wait", "collect", "output" }) ~> (pc = "done")
  /\ [][ collected' # collected =>
           \/ /\ collected' = collected + 1
              /\ futures[collected'].state = "ready"
              /\ futures'[collected'].state = "retrieved"
              /\ \A i \in 1..Len(futures) :
                    i # collected' => futures'[i] = futures[i]
           \/ collected' = 0 /\ futures' = << >> ]_vars
  /\ [](pc = "done" =>
          /\ collected = Len(futures)
          /\ \A i \in 1..Len(futures) : futures[i].state = "retrieved"
          /\ cout # << >>
          /\ cout[Len(cout)] = outputText
          /\ Chunked => outputText = Concat(ChunkResults(Len(futures))))

\* C14 witness: a run that has ended after twelve results, not all of them
\* empty, were collected.
C14_Witness ==
  /\ pc = "done"
  /\ collected = threadNum
  /\ Len(futures) = threadNum
  /\ \A i \in 1..threadNum : futures[i].state = "retrieved"
  /\ outputText # << >>
  /\ cout[Len(cout)] = outputText

\* C15: with the Vigenere cipher, key length k and text length L, the chunk
\* length is c = (floor(floor(L/k)/12) + 1) * k and 12*c >= L; chunk number i
\* (from 0) is text[i*c, i*c + c) cut off at the end of the text; the chunks
\* are taken for i = 0, 1, ... until the first i*c beyond L (or until twelve
\* are taken); put one after the other they are the text, every character
\* once; a chunk shorter than c is followed by empty chunks only.
C15_VigenereChunksCover ==
  (settings.cipherType = "Vigenere" /\ AfterSplit) =>
     LET k == Len(cipher.key)
         L == Len(inputText)
         c == (((L \div k) \div threadNum) + 1) * k
         n == Len(futures)
     IN  /\ k >= 1
         /\ chunkLength = c
         /\ threadNum * c >= L
         /\ n >= 1 /\ n <= threadNum
         /\ \A i \in 1..n :
               /\ futures[i].offset = (i - 1) * c
               /\ futures[i].offset <= L
               /\ futures[i].chunk = SubSeq(inputText, (i - 1) * c + 1, Min(i * c, L))
               /\ Len(futures[i].chunk) < c =>
                     \A j \in (i + 1)..n : futures[j].chunk = << >>
         /\ n < threadNum => n * c > L
         /\ n * c >= L
         /\ Concat([ i \in 1..n |-> futures[i].chunk ]) = inputText

\* C15 witness: the text is exactly two chunks long; a third, empty chunk was
\* taken at the end of the text and the loop stopped at the fourth.
C15_Witness ==
  /\ settings.cipherType = "Vigenere"
  /\ pc = "wait"
  /\ Len(futures) = 3
  /\ Len(inputText) = 2 * chunkLength
  /\ chunkLength > 1
  /\ Len(futures[2].chunk) = chunkLength
  /\ futures[3].chunk = << >>
  /\ futures[3].offset = Len(inputText)

\* C17: standard output receives nothing before the reassembly is over, and
\* then the output text, once: until the end of the run nothing has been
\* written, and at the end exactly the output text has.
C17_OnlyFinalOutputOnStdout ==
  cout = (IF pc = "done" THEN << outputText >> ELSE << >>)

\* C18: the step in which a task returns changes the state and the result of
\* its own future and nothing else: not its chunk, not the cipher, the
\* settings, the input text or the output text, not the chunk, state or result
\* of any other future; and the result is applyCipher of the task's own chunk
\* under the shared cipher and mode, whatever the other tasks have done by
\* then.
C18_WorkersShareNothing ==
  /\ [][ \A i \in 1..Len(futures) :
           ( /\ i <= Len(futures')
             /\ futures[i].state = "running"
             /\ futures'[i].state = "ready" ) =>
              /\ futures'[i].chunk = futures[i].chunk
              /\ futures'[i].offset = futures[i].offset
              /\ futures'[i].result
                   = applyCipher(cipher, futures[i].chunk, settings.cipherMode)
              /\ cipher' = cipher
              /\ settings' = settings
              /\ inputText' = inputText
              /\ outputText' = outputText
              /\ Len(futures') = Len(futures)
              /\ \A j \in 1..Len(futures) :
                    j # i => futures'[j] = futures[j] ]_vars
  /\ [](\A i \in 1..Len(futures) :
          futures[i].state \in { "ready", "retrieved" } =>
             futures[i].result
               = applyCipher(cipher, futures[i].chunk, settings.cipherMode))

\* C18 witness: while main() is still launching tasks, the fourth task has
\* returned its result before the first one has.
C18_Witness ==
  /\ pc = "caesarLoop"
  /\ Len(futures) = 5
  /\ futures[1].state = "running"
  /\ futures[4].state = "ready"
  /\ futures[4].chunk # << >>
  /\ futures[4].chunk # futures[5].chunk
  /\ futures[4].result = applyCipher(cipher, futures[4].chunk, settings.cipherMode)
  /\ futures[4].result # futures[4].chunk

\* a text the Playfair preparation leaves as it is
Canonical(T) ==
  /\ Len(T) % 2 = 0
  /\ "J" \notin Range(T)
  /\ EqualPairs(T) = { }

\* where letter c first appears in s
FirstIn(s, c) ==
  CHOOSE i \in 1..Len(s) : s[i] = c /\ \A j \in 1..(i - 1) : s[j] # c

\* row and column (from 0) of letter c in the square g
RowOf(g, c) == (IndexOf(g, c) - 1) \div gridSize
ColOf(g, c) == (IndexOf(g, c) - 1) % gridSize

\* the rule that applies to the pair (a, b) in the square g
RuleOf(g, a, b) ==
  IF RowOf(g, a) = RowOf(g, b) THEN "row"
  ELSE IF ColOf(g, a) = ColOf(g, b) THEN "column" ELSE "rectangle"

\* C19: the Playfair square holds 25 different letters: those of the keyword
\* in order of first appearance, then the rest of the alphabet without J; a
\* canonical text encrypts pair by pair, a pair in one row to the letters to
\* the right (wrapping), a pair in one column to the letters below (wrapping),
\* any other pair to the letters at the other corners of its rectangle, each
\* in its own row; and decrypting the cipher text in a second run with the
\* same keyword gives back the canonical text.
C19_PlayfairRoundTrip ==
  (settings.cipherType = "Playfair" /\ pc \notin { "factory", "exit1" }) =>
     LET g == cipher.key
         kw == MergeJ(ToUpperStr(settings.cipherKey))
     IN  /\ Len(g) = gridSize * gridSize
         /\ \A i, j \in 1..Len(g) : g[i] = g[j] => i = j
         /\ Range(g) = Range(Upper) \ { "J" }
         /\ \A i \in 1..Cardinality(Range(kw)) : g[i] \in Range(kw)
         /\ \A i, j \in 1..Cardinality(Range(kw)) :
               i < j => FirstIn(kw, g[i]) < FirstIn(kw, g[j])
         /\ \A i, j \in (Cardinality(Range(kw)) + 1)..Len(g) :
               i < j => AlphabetPos(g[i]) < AlphabetPos(g[j])
         /\ (run = 2 /\ pc \notin { "read" } /\ Canonical(plainText)) =>
               /\ Len(inputText) = Len(plainText)
               /\ \A p \in 1..(Len(plainText) \div 2) :
                     LET a == plainText[2 * p - 1]
                         b == plainText[2 * p]
                         x == inputText[2 * p - 1]
                         y == inputText[2 * p]
                     IN  CASE RuleOf(g, a, b) = "row" ->
                                /\ RowOf(g, x) = RowOf(g, a)
                                /\ RowOf(g, y) = RowOf(g, b)
                                /\ ColOf(g, x) = (ColOf(g, a) + 1) % gridSize
                                /\ ColOf(g, y) = (ColOf(g, b) + 1) % gridSize
                            [] RuleOf(g, a, b) = "column" ->
                                /\ ColOf(g, x) = ColOf(g, a)
                                /\ ColOf(g, y) = ColOf(g, b)
                                /\ RowOf(g, x) = (RowOf(g, a) + 1) % gridSize
                                /\ RowOf(g, y) = (RowOf(g, b) + 1) % gridSize
                            [] OTHER ->
                                /\ RowOf(g, x) = RowOf(g, a)
                                /\ ColOf(g, x) = ColOf(g, b)
                                /\ RowOf(g, y) = RowOf(g, b)
                                /\ ColOf(g, y) = ColOf(g, a)
               /\ Assembled => outputText = plainText

\* C19 witness: a finished Playfair round trip of a canonical text that has a
\* pair in one row with a letter in the last column, a pair in one column
\* with a letter in the last row, and a pair in neither.
C19_Witness ==
  /\ settings.cipherType = "Playfair"
  /\ run = 2
  /\ pc = "done"
  /\ Canonical(plainText)
  /\ \E p \in 1..(Len(plainText) \div 2) :
        /\ RuleOf(cipher.key, plainText[2 * p - 1], plainText[2 * p]) = "row"
        /\ gridSize - 1 \in { ColOf(cipher.key, plainText[2 * p - 1]),
                              ColOf(cipher.key, plainText[2 * p]) }
  /\ \E p \in 1..(Len(plainText) \div 2) :
        /\ RuleOf(cipher.key, plainText[2 * p - 1], plainText[2 * p]) = "column"
        /\ gridSize - 1 \in { RowOf(cipher.key, plainText[2 * p - 1]),
                              RowOf(cipher.key, plainText[2 * p]) }
  /\ \E p \in 1..(Len(plainText) \div 2) :
        RuleOf(cipher.key, plainText[2 * p - 1], plainText[2 * p]) = "rectangle"
  /\ inputText # plainText
  /\ outputText = plainText

\* C20: when cipherFactory throws InvalidKey for the key of the settings, the
\* one step main() takes from the construction reports the error and ends
\* the run with status 1, and nothing happens after it: the input stream is
\* left as it was, no text is read, no cipher exists, no chunk computation is
\* submitted, applyCipher is not called and nothing is written to standard
\* output.
C20_InvalidKeyExitsBeforeInput ==
  [][ ( \/ pc = "factory" /\ ThrowsInvalidKey(settings.cipherType,
                                              settings.cipherKey)
        \/ pc = "exit1" ) =>
         /\ pc' = "exit1"
         /\ cerr' # << >>
         /\ cipher' = NoCipher
         /\ stdin' = stdin
         /\ inputText' = << >>
         /\ futures' = << >>
         /\ syncCalls' = 0
         /\ outputText' = << >>
         /\ cout' = << >> ]_vars

\* C20 witness: the Caesar cipher was asked for with the key ";[]'." while a
\* text was waiting on standard input; the run has ended with status 1 and
\* the text is still unread.
C20_Witness ==
  /\ pc = "exit1"
  /\ settings.cipherType = "Caesar"
  /\ settings.cipherKey = KeyPunct
  /\ stdin = Sample
  /\ cerr # << >>
  /\ inputText = << >>
  /\ futures = << >>
  /\ cout = << >>

C22_CaesarOffsetsInRange ==
  settings.cipherType = "Caesar" =>
     /\ pc # "terminated"
     /\ pc \in { "caesarLoop", "wait", "collect", "output", "done" } =>
           LET L == Len(inputText)
           IN  /\ inputTextChunkStart <= L
               /\ endTextLen >= 0 /\ endTextLen < threadNum
               /\ threadCount = Len(futures)
               /\ inputTextChunkStart + (threadNum - threadCount) * chunkLength
                    + endTextLen = L
               /\ pc = "caesarLoop" =>
                     /\ threadCount < threadNum
                     /\ ~substrThrows(inputText, inputTextChunkStart)
                     /\ ~substrThrows(inputText, inputTextChunkStart + chunkLength)
               /\ pc # "caesarLoop" =>
                     /\ threadCount = threadNum
                     /\ inputTextChunkStart = L
                     /\ endTextLen = 0

\* C22 witness: a text shorter than the worker count has been split: the
\* first chunks took one character each, the last chunks are empty and were
\* taken at the very end of the text.
C22_Witness ==
  /\ settings.cipherType = "Caesar"
  /\ pc = "wait"
  /\ Len(inputText) > 0
  /\ Len(inputText) < threadNum
  /\ chunkLength = 0
  /\ threadCount = threadNum
  /\ inputTextChunkStart = Len(inputText)
  /\ endTextLen = 0
  /\ futures[threadNum].chunk = << >>
  /\ futures[threadNum].offset = Len(inputText)

====
